---------------------------- MODULE Spec2Model ----------------------------
(***************************************************************************)
(* A model of stylusless (src/index.ts): the userstyle-to-CSS pipeline.    *)
(*                                                                         *)
(* Text is modelled at character level: a string is a sequence of          *)
(* one-character strings, so that substring search, global replacement,    *)
(* integer parsing and regular-expression rewriting are computed the way   *)
(* the source computes them.                                               *)
(***************************************************************************)
EXTENDS Integers, Sequences, FiniteSets, TLC

VARIABLES
    pc,         \* position of the run: which routine is under way / finished
    styleText,  \* assignVariables: the raw style text
    metadata,   \* assignVariables: the parsed metadata {preprocessor, vars}
    css,        \* assignVariables: outcome of the call (thrown or a text)
    varValue,   \* valueForVariable: outcome of the call on one declared variable
    regexp,     \* escapeCSSRegExp: the argument
    escaped,    \* escapeCSSRegExp: the returned text
    style,      \* adjustPriority: the argument
    adjusted,   \* adjustPriority: the returned text
    source,     \* validateAndTransformCSS: the css argument
    result,     \* validateAndTransformCSS: {errors, warnings, transformed}
    styleUrls,  \* main: the documents of the batch, in the order of the list
    tasks,      \* main: each document's async callback (position, transformed)
    styleFiles, \* main: the style file written for each document, if any
    mainPc,     \* main: position of main itself
    importsFile \* main: the imports file, once written

mainVars == <<styleUrls, tasks, styleFiles, mainPc, importsFile>>

vars == <<pc, styleText, metadata, css, varValue, regexp, escaped, style, adjusted,
          source, result, mainVars>>

-----------------------------------------------------------------------------
(* Bounds of the model.                                                    *)

MaxFragments == 3   \* a raw style text is a concatenation of at most this many fragments
MaxVars == 2        \* at most this many variables are declared in one metadata
MaxRegexpLen == 4   \* a regexp() argument has at most this many characters
MaxStyleLen == 6    \* a text given to adjustPriority has at most this many characters
MaxChildren == 2    \* a style sheet has at most this many top-level rules and at-rules
MaxDepth == 2       \* at-rules are nested at most this deep
MaxPrelude == 2     \* an at-rule prelude has at most this many children
MaxDocs == 3        \* a batch lists at most this many user styles

-----------------------------------------------------------------------------
(* Character-level strings.                                                *)

Idle == <<"idle">>

RECURSIVE Concat(_)
Concat(ss) == IF ss = <<>> THEN <<>> ELSE Head(ss) \o Concat(Tail(ss))

Slice(str, from, to) == IF from > to THEN <<>> ELSE SubSeq(str, from, to)

\* str.substr(1)
Substr1(str) == Slice(str, 2, Len(str))

MatchAt(str, find, i) ==
    /\ i >= 1
    /\ i + Len(find) - 1 <= Len(str)
    /\ \A k \in 1..Len(find) : str[i + k - 1] = find[k]

Contains(str, find) == \E i \in 1..Len(str) : MatchAt(str, find, i)

\* Sequences over S of length at most n.
SeqsUpTo(S, n) == UNION {[1..k -> S] : k \in 0..n}

-----------------------------------------------------------------------------
(* replaceAll (String.prototype.replace with a global literal RegExp).     *)

\* The replacement argument is a replacement *pattern*: ECMAScript
\* GetSubstitution expands $$, $&, $` and $'; the RegExp built from the
\* escaped find text has no capture group, so $1..$99 stay as written.
RECURSIVE GetSubstitution(_, _, _, _)
GetSubstitution(matched, str, position, replacement) ==
    IF replacement = <<>> THEN <<>>
    ELSE IF Head(replacement) = "$" /\ Len(replacement) >= 2
    THEN LET c == replacement[2]
             rest == Slice(replacement, 3, Len(replacement))
         IN  IF c = "$"
             THEN <<"$">> \o GetSubstitution(matched, str, position, rest)
             ELSE IF c = "&"
             THEN matched \o GetSubstitution(matched, str, position, rest)
             ELSE IF c = "`"
             THEN Slice(str, 1, position - 1)
                    \o GetSubstitution(matched, str, position, rest)
             ELSE IF c = "'"
             THEN Slice(str, position + Len(matched), Len(str))
                    \o GetSubstitution(matched, str, position, rest)
             ELSE <<"$">> \o GetSubstitution(matched, str, position,
                                              Tail(replacement))
    ELSE <<Head(replacement)>>
            \o GetSubstitution(matched, str, position, Tail(replacement))

\* Leftmost, non-overlapping matches of the literal find text from index i.
\* find.replace(/[-\/\\^$*+?.()|[\]{}]/g, "\\$&") escapes every RegExp
\* metacharacter, so the RegExp matches exactly the text find.
RECURSIVE replaceFrom(_, _, _, _)
replaceFrom(str, find, replace, i) ==
    IF i > Len(str) THEN <<>>
    ELSE IF MatchAt(str, find, i)
         THEN GetSubstitution(find, str, i, replace)
                \o replaceFrom(str, find, replace, i + Len(find))
         ELSE <<str[i]>> \o replaceFrom(str, find, replace, i + 1)

replaceAll(str, find, replace) == replaceFrom(str, find, replace, 1)

-----------------------------------------------------------------------------
(* Numbers: parseInt, ToInt32 and the decimal rendering of a template.     *)

DigitValue ==
    [c \in {"0","1","2","3","4","5","6","7","8","9",
            "a","b","c","d","e","f","A","B","C","D","E","F"} |->
        CASE c = "0" -> 0  [] c = "1" -> 1  [] c = "2" -> 2  [] c = "3" -> 3
          [] c = "4" -> 4  [] c = "5" -> 5  [] c = "6" -> 6  [] c = "7" -> 7
          [] c = "8" -> 8  [] c = "9" -> 9
          [] c \in {"a","A"} -> 10  [] c \in {"b","B"} -> 11
          [] c \in {"c","C"} -> 12  [] c \in {"d","D"} -> 13
          [] c \in {"e","E"} -> 14  [] c \in {"f","F"} -> 15]

IsDigit(c, radix) == c \in DOMAIN DigitValue /\ DigitValue[c] < radix

WhiteSpace == {" ", "\t", "\n"}

RECURSIVE TrimStart(_)
TrimStart(str) ==
    IF str # <<>> /\ Head(str) \in WhiteSpace THEN TrimStart(Tail(str)) ELSE str

\* The values of the longest prefix of str made of digits of the radix.
RECURSIVE DigitPrefix(_, _)
DigitPrefix(str, radix) ==
    IF str # <<>> /\ IsDigit(Head(str), radix)
    THEN <<DigitValue[Head(str)]>> \o DigitPrefix(Tail(str), radix)
    ELSE <<>>

\* parseInt(string) with no radix argument: leading white space is skipped,
\* a sign is read, a 0x / 0X prefix selects radix 16, and the longest prefix
\* of digits is the value; NaN when that prefix is empty.  The number is
\* kept exactly, as sign, radix and digits (the inputs of the model stay
\* below 2^53, where the double parseInt returns is exact).
parseInt(string) ==
    LET s1 == TrimStart(string)
        neg == s1 # <<>> /\ Head(s1) = "-"
        s2 == IF s1 # <<>> /\ Head(s1) \in {"-", "+"} THEN Tail(s1) ELSE s1
        hex == Len(s2) >= 2 /\ s2[1] = "0" /\ s2[2] \in {"x", "X"}
        radix == IF hex THEN 16 ELSE 10
        s3 == IF hex THEN Slice(s2, 3, Len(s2)) ELSE s2
        digits == DigitPrefix(s3, radix)
    IN  [nan |-> digits = <<>>, neg |-> neg, radix |-> radix, digits |-> digits]

\* A 32-bit integer, kept as its two 16-bit halves (bits 16-31 and 0-15).
RECURSIVE Horner32(_, _, _)
Horner32(acc, digits, radix) ==
    IF digits = <<>> THEN acc
    ELSE LET lo == acc.lo * radix + Head(digits)
             hi == acc.hi * radix + (lo \div 65536)
         IN  Horner32([hi |-> hi % 65536, lo |-> lo % 65536], Tail(digits), radix)

Negate32(x) ==
    [hi |-> (65535 - x.hi + (IF x.lo = 0 THEN 1 ELSE 0)) % 65536,
     lo |-> (65536 - x.lo) % 65536]

\* ToInt32, applied by >> and & to their operands: NaN becomes 0 and any
\* other number is reduced modulo 2^32.
ToInt32(number) ==
    IF number.nan THEN [hi |-> 0, lo |-> 0]
    ELSE LET m == Horner32([hi |-> 0, lo |-> 0], number.digits, number.radix)
         IN  IF number.neg THEN Negate32(m) ELSE m

\* (value >> 16) & 0xff, (value >> 8) & 0xff and value & 0xff.
ShiftRight16AndFF(value) == ToInt32(value).hi % 256
ShiftRight8AndFF(value) == (ToInt32(value).lo \div 256) % 256
AndFF(value) == ToInt32(value).lo % 256

DigitChar == <<"0","1","2","3","4","5","6","7","8","9">>

\* `${n}` for a non-negative integer n.
RECURSIVE ToDecimal(_)
ToDecimal(n) ==
    IF n < 10 THEN <<DigitChar[n + 1]>>
    ELSE ToDecimal(n \div 10) \o <<DigitChar[(n % 10) + 1]>>

-----------------------------------------------------------------------------
(* colorHexToRGB, valueForVariable, assignVariables.                       *)

colorHexToRGB_green16(hexColor) ==
    LET value == parseInt(Substr1(hexColor))
        r == ShiftRight16AndFF(value)
        g == ShiftRight16AndFF(value)
        b == AndFF(value)
    IN  ToDecimal(r) \o <<",", " ">> \o ToDecimal(g) \o <<",", " ">> \o ToDecimal(b)

colorHexToRGB(hexColor) ==
    LET value == parseInt(Substr1(hexColor))
        r == ShiftRight16AndFF(value)
        g == ShiftRight8AndFF(value)
        b == AndFF(value)
    IN  ToDecimal(r) \o <<",", " ">> \o ToDecimal(g) \o <<",", " ">> \o ToDecimal(b)

\* The outcome of a call: an exception thrown, or a returned text.
Thrown == [threw |-> TRUE, value |-> <<>>]
Returned(text) == [threw |-> FALSE, value |-> text]

OptionTypes == {"select", "dropdown", "image"}
UnitTypes == {"number", "range"}

\* An absent / null field is the empty sequence, a present one <<its value>>.
Null == <<>>
Some(v) == <<v>>

valueForVariable_defaultIfNoOption(variable) ==
    IF variable.type \in OptionTypes
    THEN IF variable.options = Null THEN Returned(variable.default)
         ELSE LET options == variable.options[1]
                  found == {i \in 1..Len(options) :
                                options[i].name = variable.default}
              IN  IF found = {} THEN Returned(variable.default)
                  ELSE Returned(options[CHOOSE i \in found :
                                            \A j \in found : i <= j].value)
    ELSE IF variable.type \in UnitTypes
    THEN Returned(variable.default
                    \o (IF variable.units = Null THEN <<>> ELSE variable.units[1]))
    ELSE Returned(variable.default)

valueForVariable_lastOption(variable) ==
    IF variable.type \in OptionTypes
    THEN IF variable.options = Null THEN Thrown
         ELSE LET options == variable.options[1]
                  found == {i \in 1..Len(options) :
                                options[i].name = variable.default}
              IN  IF found = {} THEN Thrown
                  ELSE Returned(options[CHOOSE i \in found :
                                            \A j \in found : i >= j].value)
    ELSE IF variable.type \in UnitTypes
    THEN Returned(variable.default
                    \o (IF variable.units = Null THEN <<>> ELSE variable.units[1]))
    ELSE Returned(variable.default)

\* options.find(...) yields the first option with the name, or undefined;
\* reading .value of undefined, or .find of null, throws a TypeError.
valueForVariable(variable) ==
    IF variable.type \in OptionTypes
    THEN IF variable.options = Null THEN Thrown
         ELSE LET options == variable.options[1]
                  found == {i \in 1..Len(options) :
                                options[i].name = variable.default}
              IN  IF found = {} THEN Thrown
                  ELSE Returned(options[CHOOSE i \in found :
                                            \A j \in found : i <= j].value)
    ELSE IF variable.type \in UnitTypes
    THEN Returned(variable.default
                    \o (IF variable.units = Null THEN <<>> ELSE variable.units[1]))
    ELSE Returned(variable.default)

\* `/*[[${name}]]*/` and `/*[[${name}-rgb]]*/`
Placeholder(name) == <<"/", "*", "[", "[">> \o name \o <<"]", "]", "*", "/">>
RgbPlaceholder(name) ==
    <<"/", "*", "[", "[">> \o name \o <<"-", "r", "g", "b">>
        \o <<"]", "]", "*", "/">>

\* One step of the reduce over Object.keys(vars): the callback of
\* lines 53-66 applied to the accumulated style and one declared variable.
\* The arguments of replaceAll are evaluated before it is called, so a throw
\* of valueForVariable ends the call whatever the style holds.
reduceStep(acc, var) ==
    IF acc.threw THEN acc
    ELSE LET v == valueForVariable(var.variable)
         IN  IF v.threw THEN Thrown
             ELSE LET newStyle == replaceAll(acc.value, Placeholder(var.name), v.value)
                  IN  IF var.variable.type = "color"
                      THEN Returned(replaceAll(newStyle, RgbPlaceholder(var.name),
                                               colorHexToRGB(v.value)))
                      ELSE Returned(newStyle)

\* The reduce over the first k declared variables, in declaration order.
RECURSIVE reduceVars(_, _, _)
reduceVars(styleTxt, declared, k) ==
    IF k = 0 THEN Returned(styleTxt)
    ELSE reduceStep(reduceVars(styleTxt, declared, k - 1), declared[k])

assignVariables_usoForDefault(styleTxt, meta) ==
    IF meta.preprocessor \in {"undefined", "default", "uso"}
    THEN reduceVars(styleTxt, meta.vars, Len(meta.vars))
    ELSE Thrown

\* metadata.vars is the sequence of the declared (name, variable) pairs in
\* insertion order, the order of Object.keys; preprocessor "undefined" is an
\* absent preprocessor key.
assignVariables(styleTxt, meta) ==
    IF meta.preprocessor \in {"default", "undefined"} THEN Returned(styleTxt)
    ELSE IF meta.preprocessor = "uso"
    THEN reduceVars(styleTxt, meta.vars, Len(meta.vars))
    ELSE Thrown

-----------------------------------------------------------------------------
(* Inputs of the variable resolver.                                        *)

NameA == <<"a">>
NameB == <<"b">>
Names == {NameA, NameB}

Preprocessors == {"undefined", "default", "uso", "stylus"}

VariableTypes ==
    {"text", "color", "checkbox", "select", "dropdown", "image", "number",
     "range", "font"}

\* Default values: plain text, a replacement pattern, a placeholder, and
\* colour texts whose tail is decimal (0x010203), not a number, negative,
\* above 2^32, 0x-prefixed, and a number followed by letters.
Defaults ==
    {<<"x">>, <<>>, <<"$", "&">>, Placeholder(NameA),
     <<"#", "6", "6", "0", "5", "1">>,
     <<"#", "f", "f", "0", "0", "0", "0">>,
     <<"#", "-", "1">>,
     <<"#", "4", "2", "9", "4", "9", "6", "7", "2", "9", "7">>,
     <<"#", "0", "x", "1", "F", "2", "e", "3", "D">>,
     <<"#", " ", "2", "5", "6", "p", "x">>}

Option(name, val) == [name |-> name, value |-> val]

\* options: null, an empty list, a list naming x and y, a list naming x twice.
OptionLists ==
    {Null,
     Some(<<>>),
     Some(<<Option(<<"y">>, <<"v", "1">>), Option(<<"x">>, <<"v", "2">>)>>),
     Some(<<Option(<<"x">>, <<"v", "3">>), Option(<<"x">>, <<"v", "4">>)>>)}

UnitsValues == {Null, Some(<<"p", "x">>)}

Variables ==
    [type : VariableTypes, default : Defaults, options : OptionLists,
     units : UnitsValues]

\* The variables of the documents that declare several variables.
FewVariables ==
    {[type |-> "text", default |-> <<"x">>, options |-> Null, units |-> Null],
     [type |-> "text", default |-> <<"$", "&">>, options |-> Null, units |-> Null],
     [type |-> "text", default |-> Placeholder(NameA), options |-> Null,
      units |-> Null],
     [type |-> "color", default |-> <<"#", "6", "6", "0", "5", "1">>,
      options |-> Null, units |-> Null],
     [type |-> "select", default |-> <<"z">>,
      options |-> Some(<<Option(<<"x">>, <<"v", "3">>)>>), units |-> Null]}

Var(name, variable) == [name |-> name, variable |-> variable]

\* Declarations of at most MaxVars variables with distinct names.
Declarations(VS) ==
    {d \in SeqsUpTo([name : Names, variable : VS], MaxVars) :
        \A i, j \in 1..Len(d) : i # j => d[i].name # d[j].name}

Fragments ==
    {Placeholder(NameA), Placeholder(NameB), RgbPlaceholder(NameA),
     <<"/", "*", "[", "[">>, <<"a", "]", "]", "*", "/">>, <<"x", ";">>}

StyleTexts == {Concat(fs) : fs \in SeqsUpTo(Fragments, MaxFragments)}

FewStyleTexts ==
    {Placeholder(NameA), RgbPlaceholder(NameA), <<"x", ";">>,
     <<"c", ":">> \o RgbPlaceholder(NameA) \o Placeholder(NameA)}

ResolverIdle ==
    /\ styleText = Idle /\ metadata = Idle /\ css = Idle /\ varValue = Idle
EscapeIdle == regexp = Idle /\ escaped = Idle
PriorityIdle == style = Idle /\ adjusted = Idle
ValidatorIdle == source = Idle /\ result = Idle
MainIdle ==
    /\ styleUrls = Idle /\ tasks = Idle /\ styleFiles = Idle
    /\ mainPc = Idle /\ importsFile = Idle

\* One declared variable of any shape against a few texts, or several
\* variables of a few shapes against the composed texts.
InitResolve ==
    /\ pc = "assignVariables"
    /\ \/ /\ styleText \in FewStyleTexts
          /\ \E p \in Preprocessors, v \in Variables :
                metadata = [preprocessor |-> p, vars |-> <<Var(NameA, v)>>]
       \/ /\ styleText \in StyleTexts
          /\ \E p \in {"uso", "default"}, d \in Declarations(FewVariables) :
                metadata = [preprocessor |-> p, vars |-> d]
    /\ css = Idle /\ varValue = Idle
    /\ EscapeIdle /\ PriorityIdle /\ ValidatorIdle /\ MainIdle

\* const css = assignVariables(rawStyle, metadata)
AssignVariables ==
    /\ pc = "assignVariables"
    /\ css' = assignVariables(styleText, metadata)
    /\ pc' = "resolved"
    /\ UNCHANGED mainVars
    /\ UNCHANGED <<styleText, metadata, varValue, regexp, escaped, style, adjusted,
                   source, result>>

\* valueForVariable(vars[name]) for one declared name
ValueForVariable ==
    /\ pc = "assignVariables"
    /\ \E i \in 1..Len(metadata.vars) :
          varValue' = [index |-> i,
                    outcome |-> valueForVariable(metadata.vars[i].variable)]
    /\ pc' = "valued"
    /\ UNCHANGED mainVars
    /\ UNCHANGED <<styleText, metadata, css, regexp, escaped, style, adjusted,
                   source, result>>

NextResolve == AssignVariables \/ ValueForVariable

SpecResolve == InitResolve /\ [][NextResolve]_vars

-----------------------------------------------------------------------------
(* Properties of the variable resolver.                                    *)

Uso == metadata.preprocessor = "uso"
Declared == 1..Len(metadata.vars)

\* No option of the variable carries the name of its default.
NoMatchingOption(variable) ==
    \/ variable.options = Null
    \/ \A i \in 1..Len(variable.options[1]) :
            variable.options[1][i].name # variable.default

\* C1: with the preprocessor absent or "default", assignVariables returns the
\* raw text unchanged whatever vars holds, and does not fail.
C1_DefaultIsIdentity ==
    (pc = "resolved" /\ metadata.preprocessor \in {"default", "undefined"})
        => css = Returned(styleText)

C1_Witness ==
    /\ pc = "resolved"
    /\ metadata.preprocessor = "default"
    /\ Contains(styleText, Placeholder(NameA))
    /\ \E i \in Declared :
          /\ metadata.vars[i].variable.type = "select"
          /\ NoMatchingOption(metadata.vars[i].variable)
    /\ css = Returned(styleText)

\* C2: under "uso" the output holds no value placeholder of a declared name,
\* and resolving the output again returns it unchanged.
C2_NoPlaceholderRemains ==
    (pc = "resolved" /\ Uso /\ ~css.threw)
        => /\ \A i \in Declared :
                ~Contains(css.value, Placeholder(metadata.vars[i].name))
           /\ assignVariables(css.value, metadata) = css

\* C3: valueForVariable returns the value of the (first) option named by the
\* default for select / dropdown / image, the default followed by the units
\* (if any) for number / range, and the default itself for any other type.
C3_ValueForVariable ==
    pc = "valued" =>
        LET variable == metadata.vars[varValue.index].variable
            out == varValue.outcome
        IN  /\ (variable.type \in OptionTypes /\ ~NoMatchingOption(variable))
                => /\ ~out.threw
                   /\ \E i \in 1..Len(variable.options[1]) :
                        /\ variable.options[1][i].name = variable.default
                        /\ variable.options[1][i].value = out.value
                        /\ \A j \in 1..(i - 1) :
                              variable.options[1][j].name # variable.default
            /\ (variable.type \in UnitTypes /\ variable.units # Null)
                => out = Returned(variable.default \o variable.units[1])
            /\ (variable.type \in UnitTypes /\ variable.units = Null)
                => out = Returned(variable.default)
            /\ variable.type \notin (OptionTypes \cup UnitTypes)
                => out = Returned(variable.default)

C3_Witness ==
    /\ pc = "valued"
    /\ metadata.vars[varValue.index].variable.type = "dropdown"
    /\ metadata.vars[varValue.index].variable.default = <<"x">>
    /\ metadata.vars[varValue.index].variable.options # Null
    /\ Len(metadata.vars[varValue.index].variable.options[1]) = 2
    /\ varValue.outcome = Returned(<<"v", "3">>)

\* C4: under "uso", a declared select / dropdown / image variable with no
\* option named by its default makes assignVariables throw, whether or not
\* its placeholder occurs in the text; no text is returned.
C4_MissingOptionThrows ==
    (/\ pc = "resolved"
     /\ Uso
     /\ \E i \in Declared :
            /\ metadata.vars[i].variable.type \in OptionTypes
            /\ NoMatchingOption(metadata.vars[i].variable))
        => css = Thrown

C4_Witness ==
    /\ pc = "resolved"
    /\ Uso
    /\ \E i \in Declared :
          /\ metadata.vars[i].variable.type \in OptionTypes
          /\ NoMatchingOption(metadata.vars[i].variable)
          /\ ~Contains(styleText, Placeholder(metadata.vars[i].name))
    /\ Len(metadata.vars) = 2
    /\ css = Thrown

\* The parsed number modulo 2^24, computed on plain integers.
RECURSIVE HornerMod24(_, _, _)
HornerMod24(acc, digits, radix) ==
    IF digits = <<>> THEN acc
    ELSE HornerMod24((acc * radix + Head(digits)) % 16777216, Tail(digits), radix)

Low24(number) ==
    IF number.nan THEN 0
    ELSE LET m == HornerMod24(0, number.digits, number.radix)
         IN  IF number.neg THEN (16777216 - m) % 16777216 ELSE m

\* text is the canonical decimal numeral of n.
RECURSIVE DecimalValue(_)
DecimalValue(text) ==
    IF text = <<>> THEN 0
    ELSE 10 * DecimalValue(SubSeq(text, 1, Len(text) - 1))
            + DigitValue[text[Len(text)]]

IsNumeral(text, n) ==
    /\ text # <<>>
    /\ Len(text) <= 3
    /\ \A k \in 1..Len(text) : IsDigit(text[k], 10)
    /\ (Len(text) > 1 => text[1] # "0")
    /\ DecimalValue(text) = n

\* text reads "R, G, B" with the decimal numerals of r, g and b.
IsRGBText(text, r, g, b) ==
    \E i, j \in 1..Len(text) :
        /\ i + 1 < j /\ j + 1 < Len(text)
        /\ text[i] = "," /\ text[i + 1] = " "
        /\ text[j] = "," /\ text[j + 1] = " "
        /\ IsNumeral(Slice(text, 1, i - 1), r)
        /\ IsNumeral(Slice(text, i + 2, j - 1), g)
        /\ IsNumeral(Slice(text, j + 2, Len(text)), b)

\* The text expected for the resolved value of a colour variable: bits
\* 16-23, 8-15 and 0-7 of the number parsed from the value without its
\* first character (0 when it does not parse).
IsRGBOf(text, resolved) ==
    LET low == Low24(parseInt(Substr1(resolved)))
        r == low \div 65536
        g == (low \div 256) % 256
        b == low % 256
    IN  /\ r \in 0..255 /\ g \in 0..255 /\ b \in 0..255
        /\ IsRGBText(text, r, g, b)

\* C5: for a colour variable under "uso", the -rgb placeholder is replaced by
\* "R, G, B", three decimal integers of 0..255 that are bits 16-23, 8-15 and
\* 0-7 of the number parsed from the resolved value without its first
\* character, whatever the resolved value is; once the variable has been
\* substituted none of its -rgb placeholders is left.
C5_RgbPlaceholder ==
    (pc = "resolved" /\ Uso /\ ~css.threw) =>
        \A i \in Declared :
            metadata.vars[i].variable.type = "color" =>
                LET resolved == valueForVariable(metadata.vars[i].variable).value
                    name == metadata.vars[i].name
                IN  /\ IsRGBOf(colorHexToRGB(resolved), resolved)
                    /\ ~Contains(reduceVars(styleText, metadata.vars, i).value,
                                 RgbPlaceholder(name))
                    /\ (styleText = RgbPlaceholder(name) /\ Len(metadata.vars) = 1)
                        => IsRGBOf(css.value, resolved)

C5_Witness ==
    /\ pc = "resolved" /\ Uso
    /\ styleText = RgbPlaceholder(NameA)
    /\ Len(metadata.vars) = 1
    /\ metadata.vars[1].variable.type = "color"
    /\ metadata.vars[1].variable.default
            = <<"#", "4", "2", "9", "4", "9", "6", "7", "2", "9", "7">>
    /\ css = Returned(<<"0", ",", " ", "0", ",", " ", "1">>)

C5_WitnessNaN ==
    /\ pc = "resolved" /\ Uso
    /\ styleText = RgbPlaceholder(NameA)
    /\ metadata.vars[1].variable.type = "color"
    /\ metadata.vars[1].variable.default = <<"#", "f", "f", "0", "0", "0", "0">>
    /\ css = Returned(<<"0", ",", " ", "0", ",", " ", "0">>)

-----------------------------------------------------------------------------
(* escapeCSSRegExp.                                                        *)

Backslash == "\\"

\* regexp.replace(/([^\\]\\)/g, "$1\\"): the leftmost, non-overlapping
\* matches of "a character other than a backslash, then a backslash"; each
\* is replaced by itself ($1) followed by one more backslash.
RECURSIVE escapeFrom(_, _)
escapeFrom(str, i) ==
    IF i > Len(str) THEN <<>>
    ELSE IF i + 1 <= Len(str) /\ str[i] # Backslash /\ str[i + 1] = Backslash
         THEN <<str[i], Backslash, Backslash>> \o escapeFrom(str, i + 2)
         ELSE <<str[i]>> \o escapeFrom(str, i + 1)

escapeCSSRegExp_always(rx) == escapeFrom(rx, 1)

escapeCSSRegExp(rx) ==
    IF Contains(rx, <<Backslash, Backslash>>) THEN rx
    ELSE escapeFrom(rx, 1)

RegexpChars == {Backslash, "w", ".", "\""}

Regexps == SeqsUpTo(RegexpChars, MaxRegexpLen)

InitEscape ==
    /\ pc = "escapeCSSRegExp"
    /\ regexp \in Regexps
    /\ escaped = Idle
    /\ ResolverIdle /\ PriorityIdle /\ ValidatorIdle /\ MainIdle

\* const escaped = escapeCSSRegExp(regexp.value)
EscapeCSSRegExp ==
    /\ pc = "escapeCSSRegExp"
    /\ escaped' = escapeCSSRegExp(regexp)
    /\ pc' = "escaped"
    /\ UNCHANGED mainVars
    /\ UNCHANGED <<styleText, metadata, css, varValue, regexp, style, adjusted,
                   source, result>>

NextEscape == EscapeCSSRegExp

SpecEscape == InitEscape /\ [][NextEscape]_vars

\* Every backslash of the text written twice, all else as it is.
RECURSIVE DoubleBackslashes(_)
DoubleBackslashes(str) ==
    IF str = <<>> THEN <<>>
    ELSE (IF Head(str) = Backslash THEN <<Backslash, Backslash>> ELSE <<Head(str)>>)
            \o DoubleBackslashes(Tail(str))

\* C6: for an input without two consecutive backslashes, escapeCSSRegExp
\* doubles every backslash and leaves the other characters untouched; in
\* particular backslash-w becomes backslash-backslash-w.
C6_EveryBackslashDoubled ==
    (pc = "escaped" /\ ~Contains(regexp, <<Backslash, Backslash>>))
        => escaped = DoubleBackslashes(regexp)

-----------------------------------------------------------------------------
(* adjustPriority (the textual strategy).                                  *)

Important == <<" ", "!", "i", "m", "p", "o", "r", "t", "a", "n", "t">>

\* The end of the match of /(: ?[^\!]*?);\n/ that starts at index i, if any:
\* the index of the first ";" followed by a line feed that is reached from
\* the colon without passing a "!" (the optional space is not a "!", so the
\* match ends at the same place whether or not " ?" takes it).
MatchEnds(str, i, exclude) ==
    {j \in (i + 1)..(Len(str) - 1) :
        /\ str[j] = ";" /\ str[j + 1] = "\n"
        /\ \A k \in (i + 1)..(j - 1) : str[k] \notin exclude}

\* styleText.replace(/(: ?[^\!]*?);\n/g, "$1 !important;\n")
RECURSIVE adjustFrom(_, _, _)
adjustFrom(str, i, exclude) ==
    IF i > Len(str) THEN <<>>
    ELSE IF str[i] = ":" /\ MatchEnds(str, i, exclude) # {}
         THEN LET ends == MatchEnds(str, i, exclude)
                  j == CHOOSE e \in ends : \A f \in ends : e <= f
              IN  Slice(str, i, j - 1) \o Important \o <<";", "\n">>
                    \o adjustFrom(str, j + 2, exclude)
         ELSE <<str[i]>> \o adjustFrom(str, i + 1, exclude)

adjustPriority_anyValue(styleTxt) == adjustFrom(styleTxt, 1, {})

adjustPriority(styleTxt) == adjustFrom(styleTxt, 1, {"!"})

StyleChars == {":", " ", "!", ";", "\n", "a"}

Styles == SeqsUpTo(StyleChars, MaxStyleLen)

InitPriority ==
    /\ pc = "adjustPriority"
    /\ style \in Styles
    /\ adjusted = Idle
    /\ ResolverIdle /\ EscapeIdle /\ ValidatorIdle /\ MainIdle

\* const style = adjustPriority(assignVariables(rawStyle, metadata))
AdjustPriority ==
    /\ pc = "adjustPriority"
    /\ adjusted' = adjustPriority(style)
    /\ pc' = "adjusted"
    /\ UNCHANGED mainVars
    /\ UNCHANGED <<styleText, metadata, css, varValue, regexp, escaped, style,
                   source, result>>

-----------------------------------------------------------------------------
(* The css-tree structures validateAndTransformCSS works on.               *)
(*                                                                         *)
(* A CSS text is its syntax tree, the syntax errors its parse reports and  *)
(* its form: "source" for a text as it was written, "generated" for the    *)
(* output of csstree.generate, which does not keep the input's formatting. *)
(* A declaration carries the outcome of lexer.matchDeclaration on it.      *)

Text(form, syntaxErrors, ast) ==
    [form |-> form, syntaxErrors |-> syntaxErrors, ast |-> ast]

\* csstree.parse(css, {positions: true, onParseError}): the tree, and each
\* syntax error handed to onParseError.
parse(text) == [ast |-> text.ast, errors |-> text.syntaxErrors]

\* csstree.generate(ast)
generate(ast) == Text("generated", <<>>, ast)

Declaration(property, match, important) ==
    [type |-> "Declaration", property |-> property, match |-> match,
     important |-> important]
Rule(block) == [type |-> "Rule", block |-> block]
Atrule(name, prelude, block) ==
    [type |-> "Atrule", name |-> name, prelude |-> prelude, block |-> block]
Function(name, children) ==
    [type |-> "Function", name |-> name, children |-> children]
Leaf(type, val) == [type |-> type, value |-> val]

\* (csstree as any).lexer.matchDeclaration(node).error
MatchError(name, rawMessage) == Some([name |-> name, rawMessage |-> rawMessage])

Report(kind, loc, message, detail) ==
    [kind |-> kind, loc |-> loc, message |-> message, detail |-> detail]

\* The body of the first walk's enter (lines 113-145) for one declaration at
\* loc: nothing without a match error or for an error of another name, else
\* the report that is stringified and pushed.
declarationReport(node, loc, reportable) ==
    IF node.match = Null THEN <<>>
    ELSE LET error == node.match[1]
         IN  IF error.name \notin reportable THEN <<>>
             ELSE <<Report(error.name, loc,
                           IF error.rawMessage = "Mismatch"
                           THEN <<"Invalid value for", node.property>>
                           ELSE <<error.rawMessage>>,
                           <<error.rawMessage>>)>>

\* csstree.walk(ast, {visit: "Declaration", enter}) collecting the reports of
\* the children from index i on, in document order, at any depth.
RECURSIVE declarationReports(_, _, _, _)
declarationReports(children, i, path, reportable) ==
    IF i > Len(children) THEN <<>>
    ELSE LET node == children[i]
             loc == path \o <<i>>
         IN  (IF node.type = "Declaration"
              THEN declarationReport(node, loc, reportable)
              ELSE declarationReports(node.block, 1, loc, reportable))
                \o declarationReports(children, i + 1, path, reportable)

RECURSIVE markImportant_topLevelOnly(_)
markImportant_topLevelOnly(children) ==
    IF children = <<>> THEN <<>>
    ELSE LET node == Head(children)
         IN  <<IF node.type = "Declaration"
               THEN [node EXCEPT !.important = "true"]
               ELSE IF node.type = "Rule"
               THEN [node EXCEPT !.block = markImportant_topLevelOnly(node.block)]
               ELSE node>>
                \o markImportant_topLevelOnly(Tail(children))

\* csstree.walk(ast, {visit: "Declaration", enter: node.important = true})
RECURSIVE markImportant(_)
markImportant(children) ==
    IF children = <<>> THEN <<>>
    ELSE LET node == Head(children)
         IN  <<IF node.type = "Declaration"
               THEN [node EXCEPT !.important = "true"]
               ELSE [node EXCEPT !.block = markImportant(node.block)]>>
                \o markImportant(Tail(children))

DocumentRules_anyCase ==
    {"-moz-document", "document", "-MOZ-DOCUMENT"}

DocumentRules == {"-moz-document", "document"}

\* The callback of node.children.forEach (lines 176-195) on one child of a
\* document prelude: what it reports, and the child as it leaves it.
\* children.first() of an empty list is null, and reading its loc throws.
preludeFunctionReport(preludeFunction, loc) ==
    IF preludeFunction.type # "Function" \/ preludeFunction.name # "regexp"
    THEN <<>>
    ELSE IF preludeFunction.children = <<>>
    THEN <<Report("throw", loc, <<"TypeError">>, <<>>)>>
    ELSE LET rx == preludeFunction.children[1]
         IN  IF rx.type # "String"
             THEN <<Report("error", loc, <<"regexp() argument must be a String">>,
                           <<>>)>>
             ELSE IF rx.value # escapeCSSRegExp(rx.value)
             THEN <<Report("warning", loc, <<"Fixed escaping in regexp()">>,
                           rx.value)>>
             ELSE <<>>

preludeFunctionFixed(preludeFunction) ==
    IF preludeFunction.type # "Function" \/ preludeFunction.name # "regexp"
    THEN preludeFunction
    ELSE IF preludeFunction.children = <<>> THEN preludeFunction
    ELSE LET rx == preludeFunction.children[1]
         IN  IF rx.type # "String" THEN preludeFunction
             ELSE [preludeFunction EXCEPT
                     !.children[1].value = escapeCSSRegExp(rx.value)]

RECURSIVE preludeReports(_, _, _)
preludeReports(prelude, i, path) ==
    IF i > Len(prelude) THEN <<>>
    ELSE preludeFunctionReport(prelude[i], path \o <<i>>)
            \o preludeReports(prelude, i + 1, path)

RECURSIVE preludeFixed(_)
preludeFixed(prelude) ==
    IF prelude = <<>> THEN <<>>
    ELSE <<preludeFunctionFixed(Head(prelude))>> \o preludeFixed(Tail(prelude))

\* csstree.walk(ast, {visit: "AtrulePrelude", enter}) (lines 167-197): the
\* reports in the order of the walk (an at-rule's prelude before its block).
\* An at-rule written without a prelude has prelude null and is not visited.
RECURSIVE regexpReports(_, _, _)
regexpReports(children, i, path) ==
    IF i > Len(children) THEN <<>>
    ELSE LET node == children[i]
             loc == path \o <<i>>
         IN  (IF node.type = "Declaration" THEN <<>>
              ELSE IF node.type = "Rule" THEN <<>>
              ELSE (IF node.prelude # Null /\ node.name \in DocumentRules
                    THEN preludeReports(node.prelude[1], 1, loc \o <<0>>)
                    ELSE <<>>)
                     \o regexpReports(node.block, 1, loc))
                \o regexpReports(children, i + 1, path)

\* The tree as that walk leaves it.
RECURSIVE regexpFixed(_)
regexpFixed(children) ==
    IF children = <<>> THEN <<>>
    ELSE LET node == Head(children)
         IN  <<IF node.type \in {"Declaration", "Rule"} THEN node
               ELSE [node EXCEPT
                       !.prelude = IF node.prelude # Null
                                      /\ node.name \in DocumentRules
                                   THEN Some(preludeFixed(node.prelude[1]))
                                   ELSE node.prelude,
                       !.block = regexpFixed(node.block)]>>
                \o regexpFixed(Tail(children))

OfKind(reports, kind) == SelectSeq(reports, LAMBDA r : r.kind = kind)

Reportable == {"SyntaxMatchError", "SyntaxReferenceError"}

ParseError == Report("SyntaxError", <<1>>, <<"Parse error">>, <<>>)

ValidationThrown ==
    [threw |-> TRUE, errors |-> <<>>, warnings |-> <<>>, transformed |-> Idle]
Validation(errors, warnings, transformed) ==
    [threw |-> FALSE, errors |-> errors, warnings |-> warnings,
     transformed |-> transformed]

validateAndTransformCSS_noShortCircuit(cssText) ==
    LET parsed == parse(cssText)
        errors == parsed.errors
                    \o declarationReports(parsed.ast, 1, <<>>, Reportable)
        important == markImportant(parsed.ast)
        reports == regexpReports(important, 1, <<>>)
    IN  IF OfKind(reports, "throw") # <<>> THEN ValidationThrown
        ELSE Validation(errors \o OfKind(reports, "error"),
                        OfKind(reports, "warning"),
                        generate(regexpFixed(important)))

validateAndTransformCSS(cssText) ==
    LET parsed == parse(cssText)
        errors == parsed.errors
                    \o declarationReports(parsed.ast, 1, <<>>, Reportable)
        important == markImportant(parsed.ast)
        reports == regexpReports(important, 1, <<>>)
    IN  IF errors # <<>> THEN Validation(errors, <<>>, cssText)
        ELSE IF OfKind(reports, "throw") # <<>> THEN ValidationThrown
        ELSE Validation(errors \o OfKind(reports, "error"),
                        OfKind(reports, "warning"),
                        generate(regexpFixed(important)))

-----------------------------------------------------------------------------
(* Inputs of validateAndTransformCSS.                                      *)

\* Declarations that match, with every kind of importance flag (none,
\* !important, a custom one such as !ie), and declarations whose match fails:
\* a value mismatch, an unknown property, and a custom property (an error
\* named "Error", which is not reported).
DeclarationNodes ==
    {Declaration("color", Null, "false"),
     Declaration("color", Null, "true"),
     Declaration("color", Null, "ie"),
     Declaration("color", MatchError("SyntaxMatchError", "Mismatch"), "false"),
     Declaration("colr", MatchError("SyntaxReferenceError", "Unknown property"),
                 "false"),
     Declaration("--x", MatchError("Error", "Lexer matching not applicable"),
                 "false")}

\* Rules, at-rules holding a declaration, and at-rules nested to depth d.
RECURSIVE NestedNodes(_)
NestedNodes(d) ==
    IF d = 0 THEN {Rule(<<decl>>) : decl \in DeclarationNodes}
    ELSE NestedNodes(0)
            \cup {Atrule("font-face", Null, <<decl>>) : decl \in DeclarationNodes}
            \cup {Atrule("media", Some(<<Leaf("Identifier", <<"w">>)>>), <<n>>) :
                    n \in NestedNodes(d - 1)}

QuotedSingle == <<"\"", Backslash, "w", "\"">>
QuotedDouble == <<"\"", Backslash, Backslash, "w", "\"">>
BareSingle == <<Backslash, "w">>

PreludeChildren ==
    {Function("regexp", <<Leaf("String", v)>>) :
        v \in {QuotedSingle, QuotedDouble, BareSingle}}
    \cup {Function("regexp", <<Leaf("Identifier", <<"w">>)>>),
          Function("regexp", <<>>),
          Function("url-prefix", <<Leaf("String", QuotedSingle)>>),
          Leaf("Url", <<"w">>)}

AtruleNames == {"-moz-document", "document", "media", "-MOZ-DOCUMENT"}

DocumentAtrules ==
    {Atrule(name, Some(prelude), block) :
        name \in AtruleNames,
        prelude \in SeqsUpTo(PreludeChildren, MaxPrelude),
        block \in {<<>>,
                   <<Rule(<<Declaration("color", Null, "false")>>)>>,
                   <<Rule(<<Declaration("color",
                                        MatchError("SyntaxMatchError", "Mismatch"),
                                        "false")>>)>>}}

\* Style sheets of nested rules, and style sheets with one document-like
\* at-rule, at the top or inside an @media block.
StyleSheets ==
    SeqsUpTo(NestedNodes(MaxDepth), MaxChildren)
    \cup {<<a>> : a \in DocumentAtrules}
    \cup {<<Atrule("media", Some(<<>>), <<a>>)>> : a \in DocumentAtrules}

InitValidate ==
    /\ pc = "validateAndTransformCSS"
    /\ \E syntaxErrors \in {<<>>, <<ParseError>>}, ast \in StyleSheets :
            source = Text("source", syntaxErrors, ast)
    /\ result = Idle
    /\ ResolverIdle /\ EscapeIdle /\ PriorityIdle /\ MainIdle

\* validateAndTransformCSS(css)
ValidateAndTransformCSS ==
    /\ pc = "validateAndTransformCSS"
    /\ result' = validateAndTransformCSS(source)
    /\ pc' = "validated"
    /\ UNCHANGED mainVars
    /\ UNCHANGED <<styleText, metadata, css, varValue, regexp, escaped, style,
                   adjusted, source>>

NextValidate == ValidateAndTransformCSS

SpecValidate == InitValidate /\ [][NextValidate]_vars

InitEscalation == InitPriority \/ InitValidate

NextEscalation == AdjustPriority \/ ValidateAndTransformCSS

SpecEscalation == InitEscalation /\ [][NextEscalation]_vars

-----------------------------------------------------------------------------
(* main: the batch driver.                                                 *)
(*                                                                         *)
(* styleUrls.map(async ...) starts one callback per listed style; each     *)
(* runs to its next await, and the awaited fetches and file writes         *)
(* complete in any order.  A document is what its URL yields: the outcome  *)
(* of usercss-meta's parse on the fetched text, that text, and the syntax  *)
(* tree css-tree builds from the text assignVariables returns.  The file   *)
(* names of the listed styles are taken to be distinct.                    *)

Document(kind, errors, rawStyle, meta, cssText) ==
    [kind |-> kind, errors |-> errors, rawStyle |-> rawStyle, metadata |-> meta,
     cssText |-> cssText]

Metadata(preprocessor, declared) == [preprocessor |-> preprocessor, vars |-> declared]

PlainSheet == <<Rule(<<Declaration("color", Null, "false")>>)>>

\* A style that goes through, one that goes through with a warning, and one
\* for each fatal error: metadata parse errors, an unsupported preprocessor,
\* a select variable without its option, an invalid value, and a regexp()
\* argument that is not a string.
Documents ==
    {Document("ok", <<>>, Placeholder(NameA),
              Metadata("uso", <<Var(NameA, [type |-> "text", default |-> <<"x">>,
                                            options |-> Null, units |-> Null])>>),
              Text("source", <<>>, PlainSheet)),
     Document("warning", <<>>, <<"x", ";">>, Metadata("undefined", <<>>),
              Text("source", <<>>,
                   <<Atrule("-moz-document",
                            Some(<<Function("regexp",
                                            <<Leaf("String", QuotedSingle)>>)>>),
                            PlainSheet)>>)),
     Document("metadata", <<"missing mandatory key">>, <<"x", ";">>,
              Metadata("undefined", <<>>), Text("source", <<>>, PlainSheet)),
     Document("preprocessor", <<>>, <<"x", ";">>, Metadata("stylus", <<>>),
              Text("source", <<>>, PlainSheet)),
     Document("variable", <<>>, <<"x", ";">>,
              Metadata("uso", <<Var(NameA, [type |-> "select", default |-> <<"z">>,
                                            options |-> Some(<<>>),
                                            units |-> Null])>>),
              Text("source", <<>>, PlainSheet)),
     Document("validation", <<>>, <<"x", ";">>, Metadata("default", <<>>),
              Text("source", <<>>,
                   <<Rule(<<Declaration("color",
                                        MatchError("SyntaxMatchError", "Mismatch"),
                                        "false")>>)>>)),
     Document("regexp", <<>>, <<"x", ";">>, Metadata("default", <<>>),
              Text("source", <<>>,
                   <<Atrule("document",
                            Some(<<Function("regexp",
                                            <<Leaf("Identifier", <<"w">>)>>)>>),
                            PlainSheet)>>))}

Task(position, transformed) == [pc |-> position, transformed |-> transformed]

Docs == 1..Len(styleUrls)

InitMain ==
    /\ pc = "main"
    /\ styleUrls \in SeqsUpTo(Documents, MaxDocs)
    /\ tasks = [d \in 1..Len(styleUrls) |-> Task("fetchStyle", Idle)]
    /\ styleFiles = [d \in 1..Len(styleUrls) |-> Null]
    /\ mainPc = "Promise.all"
    /\ importsFile = Null
    /\ ResolverIdle /\ EscapeIdle /\ PriorityIdle /\ ValidatorIdle

\* The synchronous stretch of the callback between the fetch and the first
\* file operation (lines 254-286): the task it leaves, rejected by any throw.
processStyle(doc) ==
    IF doc.errors # <<>> THEN Task("rejected", Idle)
    ELSE IF assignVariables(doc.rawStyle, doc.metadata).threw
    THEN Task("rejected", Idle)
    ELSE LET validation == validateAndTransformCSS(doc.cssText)
         IN  IF validation.threw THEN Task("rejected", Idle)
             ELSE IF validation.errors # <<>> THEN Task("rejected", Idle)
             ELSE Task("mkdir", validation.transformed)

\* await fetchStyle(styleUrl) completes, and the callback runs on to its
\* next await, or throws.
FetchStyle(d) ==
    /\ tasks[d].pc = "fetchStyle"
    /\ tasks' = [tasks EXCEPT ![d] = processStyle(styleUrls[d])]
    /\ UNCHANGED <<styleUrls, styleFiles, mainPc, importsFile>>

\* An awaited fetch or file operation fails: the callback's promise rejects.
Reject(d) ==
    /\ tasks[d].pc \in {"fetchStyle", "mkdir", "writeFile"}
    /\ tasks' = [tasks EXCEPT ![d] = Task("rejected", Idle)]
    /\ UNCHANGED <<styleUrls, styleFiles, mainPc, importsFile>>

\* await promisify(fs.mkdir)(argv["output-styles-dir"], {recursive: true})
Mkdir(d) ==
    /\ tasks[d].pc = "mkdir"
    /\ tasks' = [tasks EXCEPT ![d].pc = "writeFile"]
    /\ UNCHANGED <<styleUrls, styleFiles, mainPc, importsFile>>

\* await promisify(fs.writeFile)(stylePath, transformed); return stylePath
WriteFile(d) ==
    /\ tasks[d].pc = "writeFile"
    /\ styleFiles' = [styleFiles EXCEPT ![d] = Some(tasks[d].transformed)]
    /\ tasks' = [tasks EXCEPT ![d].pc = "fulfilled"]
    /\ UNCHANGED <<styleUrls, mainPc, importsFile>>

AllFulfilled_allSettled ==
    \A d \in Docs : tasks[d].pc \in {"fulfilled", "rejected"}

\* Promise.all fulfils once every promise of the list has fulfilled.
AllFulfilled == \A d \in Docs : tasks[d].pc = "fulfilled"

\* const stylePaths = await Promise.all(...) returns to main
PromiseAllFulfilled ==
    /\ mainPc = "Promise.all"
    /\ AllFulfilled
    /\ mainPc' = "writeImports"
    /\ UNCHANGED <<styleUrls, tasks, styleFiles, importsFile>>

\* Promise.all rejects with the first rejection; main's promise rejects and
\* main().catch logs the error.  The other callbacks are not cancelled.
PromiseAllRejected ==
    /\ mainPc = "Promise.all"
    /\ \E d \in Docs : tasks[d].pc = "rejected"
    /\ mainPc' = "caught"
    /\ UNCHANGED <<styleUrls, tasks, styleFiles, importsFile>>

\* await promisify(fs.writeFile)(argv["output-imports-file"], ...): one
\* @import line per style path, in the order of the list.
WriteImports ==
    /\ mainPc = "writeImports"
    /\ importsFile' = Some([d \in 1..Len(styleUrls) |-> d])
    /\ mainPc' = "done"
    /\ UNCHANGED <<styleUrls, tasks, styleFiles>>

\* The write of the imports file fails.
WriteImportsFails ==
    /\ mainPc = "writeImports"
    /\ mainPc' = "caught"
    /\ UNCHANGED <<styleUrls, tasks, styleFiles, importsFile>>

NextMain ==
    /\ \/ \E d \in Docs : FetchStyle(d)
       \/ \E d \in Docs : Reject(d)
       \/ \E d \in Docs : Mkdir(d)
       \/ \E d \in Docs : WriteFile(d)
       \/ PromiseAllFulfilled
       \/ PromiseAllRejected
       \/ WriteImports
       \/ WriteImportsFails
    /\ UNCHANGED <<pc, styleText, metadata, css, varValue, regexp, escaped, style,
                   adjusted, source, result>>

SpecMain == InitMain /\ [][NextMain]_vars

Init ==
    InitResolve \/ InitEscape \/ InitPriority \/ InitValidate \/ InitMain

Next == NextResolve \/ NextEscape \/ NextEscalation \/ NextMain

Spec == Init /\ [][Next]_vars

-----------------------------------------------------------------------------
(* Properties of validateAndTransformCSS and of importance escalation.     *)

\* The declarations of a tree, in document order.
RECURSIVE AllDeclarations(_)
AllDeclarations(children) ==
    IF children = <<>> THEN <<>>
    ELSE (IF Head(children).type = "Declaration" THEN <<Head(children)>>
          ELSE AllDeclarations(Head(children).block))
            \o AllDeclarations(Tail(children))

\* The children of the preludes of the tree's at-rules, in document order.
RECURSIVE AllPreludeChildren(_)
AllPreludeChildren(children) ==
    IF children = <<>> THEN <<>>
    ELSE (IF Head(children).type = "Declaration" THEN <<>>
          ELSE IF Head(children).type = "Rule" THEN <<>>
          ELSE (IF Head(children).prelude = Null THEN <<>>
                ELSE Head(children).prelude[1])
                 \o AllPreludeChildren(Head(children).block))
            \o AllPreludeChildren(Tail(children))

HasValueMatchError(ast) ==
    \E k \in 1..Len(AllDeclarations(ast)) :
        LET decl == AllDeclarations(ast)[k]
        IN  /\ decl.match # Null
            /\ decl.match[1].name \in {"SyntaxMatchError", "SyntaxReferenceError"}

HasNonStringRegexp(ast) ==
    \E k \in 1..Len(AllPreludeChildren(ast)) :
        LET f == AllPreludeChildren(ast)[k]
        IN  /\ f.type = "Function" /\ f.name = "regexp"
            /\ f.children # <<>> /\ f.children[1].type # "String"

\* C7: with a syntax error or a reportable value-match error, the result has
\* a non-empty errors list, no warnings, and transformed is the input text.
C7_ErrorsShortCircuit ==
    (/\ pc = "validated"
     /\ source.syntaxErrors # <<>> \/ HasValueMatchError(source.ast))
        => /\ ~result.threw
           /\ result.errors # <<>>
           /\ result.warnings = <<>>
           /\ result.transformed = source

C7_Witness ==
    /\ pc = "validated"
    /\ source.syntaxErrors = <<>>
    /\ HasValueMatchError(source.ast)
    /\ \E k \in 1..Len(AllPreludeChildren(source.ast)) :
          AllPreludeChildren(source.ast)[k]
              = Function("regexp", <<Leaf("String", QuotedSingle)>>)
    /\ source.ast[1].name = "-moz-document"
    /\ Len(result.errors) = 1
    /\ result.transformed = source

\* C8: whenever the result has a non-empty errors list, transformed is the
\* input text (an error for a regexp() argument that is not a string
\* short-circuits like the others).
C8_AnyErrorShortCircuits ==
    (pc = "validated" /\ ~result.threw /\ result.errors # <<>>)
        => result.transformed = source

\* C9: with no syntax error and no reportable value-match error, every
\* declaration of the document, at any depth and whatever its flag was, is
\* important in the transformed text, and no declaration is lost.
C9_EveryDeclarationImportant ==
    (/\ pc = "validated"
     /\ ~result.threw
     /\ source.syntaxErrors = <<>>
     /\ ~HasValueMatchError(source.ast))
        => LET before == AllDeclarations(source.ast)
               after == AllDeclarations(result.transformed.ast)
           IN  /\ result.transformed.form = "generated"
               /\ Len(after) = Len(before)
               /\ \A k \in 1..Len(after) :
                    /\ after[k].important = "true"
                    /\ after[k].property = before[k].property

C9_Witness ==
    /\ pc = "validated"
    /\ ~result.threw
    /\ Len(source.ast) = 2
    /\ source.ast[1].type = "Atrule"
    /\ source.ast[1].block[1].type = "Atrule"
    /\ source.ast[1].block[1].block[1].type = "Rule"
    /\ AllDeclarations(source.ast)[1].important = "ie"
    /\ AllDeclarations(source.ast)[2].important = "false"
    /\ AllDeclarations(result.transformed.ast)[1].important = "true"
    /\ AllDeclarations(result.transformed.ast)[2].important = "true"

RECURSIVE CountOccurrences(_, _, _)
CountOccurrences(str, find, i) ==
    IF i > Len(str) THEN 0
    ELSE (IF MatchAt(str, find, i) THEN 1 ELSE 0) + CountOccurrences(str, find, i + 1)

\* C10: importance escalation is idempotent under both strategies: adjusting
\* an adjusted text changes nothing (no second " !important" is added), and
\* the structural pass changes nothing in a tree it has been applied to, or
\* whose declarations are all important already.
C10_EscalationIdempotent ==
    /\ pc = "adjusted" =>
          /\ adjustPriority(adjusted) = adjusted
          /\ CountOccurrences(adjustPriority(adjusted), Important, 1)
                = CountOccurrences(adjusted, Important, 1)
    /\ (pc = "validated" /\ ~result.threw /\ result.errors = <<>>) =>
          /\ markImportant(result.transformed.ast) = result.transformed.ast
          /\ \A k \in 1..Len(AllDeclarations(result.transformed.ast)) :
                AllDeclarations(result.transformed.ast)[k].important = "true"
    /\ (/\ pc = "validated"
        /\ \A k \in 1..Len(AllDeclarations(source.ast)) :
                AllDeclarations(source.ast)[k].important = "true")
          => markImportant(source.ast) = source.ast

C10_Witness ==
    /\ pc = "adjusted"
    /\ \E k \in 1..Len(style) : style[k] = "!"
    /\ adjusted # style
    /\ CountOccurrences(adjusted, Important, 1) = 1

-----------------------------------------------------------------------------
(* Properties of the regexp() repair.                                      *)

\* The children of the at-rule preludes of a tree, in document order, each
\* with the name of its at-rule.
RECURSIVE PreludeSites(_)
PreludeSites(children) ==
    IF children = <<>> THEN <<>>
    ELSE LET node == Head(children)
         IN  (IF node.type \in {"Declaration", "Rule"} THEN <<>>
              ELSE (IF node.prelude = Null THEN <<>>
                    ELSE [k \in 1..Len(node.prelude[1]) |->
                            [atrule |-> node.name, child |-> node.prelude[1][k]]])
                     \o PreludeSites(node.block))
                \o PreludeSites(Tail(children))

\* A regexp() function with a string literal as its first argument, in the
\* prelude of an at-rule named exactly document or -moz-document.
IsRegexpLiteralSite(site) ==
    /\ site.atrule \in {"-moz-document", "document"}
    /\ site.child.type = "Function"
    /\ site.child.name = "regexp"
    /\ site.child.children # <<>>
    /\ site.child.children[1].type = "String"

\* The literals, in document order, that the repair changes.
RECURSIVE RepairedLiterals(_)
RepairedLiterals(sites) ==
    IF sites = <<>> THEN <<>>
    ELSE (IF /\ IsRegexpLiteralSite(Head(sites))
             /\ escapeCSSRegExp(Head(sites).child.children[1].value)
                    # Head(sites).child.children[1].value
          THEN <<Head(sites).child.children[1].value>>
          ELSE <<>>)
            \o RepairedLiterals(Tail(sites))

\* C11: in a document with no errors, each regexp() with a string literal in
\* the prelude of an at-rule named exactly document or -moz-document yields
\* one warning if and only if escapeCSSRegExp changes the literal, and the
\* transformed text holds the repaired literal; the preludes of other
\* at-rules yield no warning and are not changed; with warnings the
\* transformed text is still produced.
C11_RegexpRepair ==
    (pc = "validated" /\ ~result.threw /\ result.errors = <<>>) =>
        LET before == PreludeSites(source.ast)
            after == PreludeSites(result.transformed.ast)
            literals == RepairedLiterals(before)
        IN  /\ result.transformed.form = "generated"
            /\ Len(after) = Len(before)
            /\ Len(result.warnings) = Len(literals)
            /\ \A k \in 1..Len(literals) :
                    /\ result.warnings[k].kind = "warning"
                    /\ result.warnings[k].detail = literals[k]
            /\ \A k \in 1..Len(before) :
                    IF IsRegexpLiteralSite(before[k])
                    THEN /\ after[k].child.children[1].value
                              = escapeCSSRegExp(before[k].child.children[1].value)
                         /\ before[k].child.children[1].value = QuotedSingle
                              => after[k].child.children[1].value = QuotedDouble
                         /\ after[k].child.children[1].type = "String"
                         /\ after[k].child.name = "regexp"
                    ELSE after[k] = before[k]

C11_Witness ==
    /\ pc = "validated"
    /\ ~result.threw
    /\ result.errors = <<>>
    /\ Len(source.ast) = 1
    /\ source.ast[1].type = "Atrule"
    /\ source.ast[1].name = "-moz-document"
    /\ source.ast[1].prelude
          = Some(<<Function("regexp", <<Leaf("String", QuotedSingle)>>),
                   Function("regexp", <<Leaf("String", QuotedDouble)>>)>>)
    /\ Len(result.warnings) = 1
    /\ result.warnings[1].detail = QuotedSingle
    /\ result.transformed.ast[1].prelude
          = Some(<<Function("regexp", <<Leaf("String", QuotedDouble)>>),
                   Function("regexp", <<Leaf("String", QuotedDouble)>>)>>)

\* C13: escapeCSSRegExp is idempotent: escaping its output returns the
\* output; a text with two consecutive backslashes is returned unchanged,
\* and a text changed by the repair is not changed again.
C13_EscapeIdempotent ==
    pc = "escaped" =>
        /\ escapeCSSRegExp(escaped) = escaped
        /\ Contains(regexp, <<Backslash, Backslash>>) => escaped = regexp
        /\ escaped # regexp => Contains(escaped, <<Backslash, Backslash>>)

C13_Witness ==
    /\ pc = "escaped"
    /\ regexp = <<"w", Backslash, ".", Backslash>>
    /\ escaped = <<"w", Backslash, Backslash, ".", Backslash, Backslash>>
    /\ escapeCSSRegExp(escaped) = escaped

-----------------------------------------------------------------------------
(* Properties of main.                                                     *)

FatalKinds == {"metadata", "preprocessor", "variable", "validation", "regexp"}

C12_WitnessWritten ==
    /\ pc = "main"
    /\ Len(styleUrls) = 3
    /\ styleUrls[2].kind = "warning"
    /\ \A d \in Docs : styleFiles[d] # Null
    /\ mainPc = "done"
    /\ importsFile = Some(<<1, 2, 3>>)

=============================================================================
